---------------------------- MODULE Spec2Model ----------------------------
(***************************************************************************)
(* Jinja-Template-Generator: the FastAPI handler of main.py, the           *)
(* JinjaTemplateGenerator class of jinja_template_generator.py as called   *)
(* by cloud_function.py, and the two deterministic helpers both share:     *)
(* clean_template_output (the sanitizer) and analyze_json_structure.       *)
(*                                                                         *)
(* A Python str is a sequence of one-character strings, so that replace,   *)
(* strip and lower act on characters.  The lines the analyzer formats are  *)
(* TLA+ strings built by concatenation.                                    *)
(***************************************************************************)
EXTENDS Naturals, Sequences, FiniteSets, TLC

VARIABLES
    san_pc,          \* sanitizer run: "start", "cleaned", "recleaned" ("off" elsewhere)
    san_result,      \* the value handed to clean_template_output
    san_clean,       \* its return value
    san_again,       \* the return value of cleaning san_clean once more
    an_pc,           \* analyzer run: "start", "main", "generator" ("off" elsewhere)
    json_data,       \* the value handed to analyze_json_structure
    structure_info,  \* the list of lines the traversal appended
    an_text,         \* the returned "\n".join(structure_info)
    dec_pc,          \* decoder run: "start", then the caller that decoded ("off" elsewhere)
    dec_template,    \* the template the client encoded, if the input is an encoding
    dec_input,       \* the existing_template string received
    dec_outcome,     \* what the caller made of it
    entry,           \* "api": POST /generate-template/; "cf": the cloud function
    pc,              \* the statement the request is at ("off" elsewhere)
    body,            \* the JSON body received
    request,         \* the fields the handler works on
    detail_level,    \* the handler's local detail_level
    agent,           \* the agent built for the request
    existing_template, \* the decoded template
    tasks,           \* the list create_tasks returned
    crew,            \* the Crew built for the request
    executed,        \* the tasks the crew has run, in order
    result,          \* what kickoff returned
    final_template,  \* what clean_template_output returned
    exc,             \* the exception raised, if any
    response,        \* the outcome of the request
    env,             \* OPENAI_API_KEY in the process environment
    api_key,         \* what startup read of it
    stdout,          \* the lines printed
    inputs,          \* the inputs kickoff was called with
    stages           \* the statements of generate_template run so far

sanVars == <<san_pc, san_result, san_clean, san_again>>
anVars == <<an_pc, json_data, structure_info, an_text>>
decVars == <<dec_pc, dec_template, dec_input, dec_outcome>>
startVars == <<env, api_key, stdout>>
reqVars == <<entry, pc, body, request, detail_level, agent, existing_template,
             tasks, crew, executed, result, final_template, exc, response,
             startVars, inputs, stages>>
vars == <<sanVars, anVars, decVars, reqVars>>

-----------------------------------------------------------------------------
(* Bounds of the explored inputs.                                          *)

\* pieces a raw generation result is put together from
MaxPieces == 4
\* pieces of a string held inside a mapping result
MaxDictPieces == 2
\* values (mappings, sequences and scalars) a sample JSON document holds,
\* the document itself included
MaxNodes == 4

-----------------------------------------------------------------------------
(* Python strings as character sequences.                                  *)

Range(s) == {s[i] : i \in 1..Len(s)}

RECURSIVE Concat(_)
\* the concatenation of a sequence of character sequences
Concat(ss) == IF ss = <<>> THEN <<>> ELSE Head(ss) \o Concat(Tail(ss))

\* The backtick cannot be written inside a TLA+ string literal, so the
\* two-letter token "BT" stands for that one character; no other
\* character of the model is longer than one letter.
BT == "BT"
NEWLINE == "\n"
FENCE == <<BT, BT, BT>>
FENCE_HTML == <<BT, BT, BT, "h", "t", "m", "l">>
FENCE_JINJA == <<BT, BT, BT, "j", "i", "n", "j", "a">>
FENCE_JSON == <<BT, BT, BT, "j", "s", "o", "n">>

\* whether sub occurs in s at position i
OccursAt(s, sub, i) ==
    /\ i >= 1
    /\ i + Len(sub) - 1 <= Len(s)
    /\ SubSeq(s, i, i + Len(sub) - 1) = sub

\* Python's (sub in s)
Contains(s, sub) == \E i \in 1..Len(s) : OccursAt(s, sub, i)

RECURSIVE ReplaceFrom(_, _, _, _)
ReplaceFrom(s, i, old, new) ==
    IF i > Len(s) THEN <<>>
    ELSE IF OccursAt(s, old, i)
         THEN new \o ReplaceFrom(s, i + Len(old), old, new)
         ELSE <<s[i]>> \o ReplaceFrom(s, i + 1, old, new)

RECURSIVE ReplaceFirstFrom(_, _, _, _)
\* a replace that stops after the first occurrence (str.replace(old, new, 1))
ReplaceFirstFrom(s, i, old, new) ==
    IF i > Len(s) THEN <<>>
    ELSE IF OccursAt(s, old, i)
         THEN new \o SubSeq(s, i + Len(old), Len(s))
         ELSE <<s[i]>> \o ReplaceFirstFrom(s, i + 1, old, new)

ReplaceFirst(s, old, new) == ReplaceFirstFrom(s, 1, old, new)

\* str.replace(old, new) for a non-empty old: every non-overlapping
\* occurrence, found scanning left to right.
Replace(s, old, new) == ReplaceFrom(s, 1, old, new)

\* the characters str.strip() removes
Whitespace == {" ", "\n", "\t", "\r"}

RECURSIVE LStrip(_)
LStrip(s) ==
    IF s # <<>> /\ Head(s) \in Whitespace THEN LStrip(Tail(s)) ELSE s

RECURSIVE RStrip(_)
RStrip(s) ==
    IF s # <<>> /\ s[Len(s)] \in Whitespace
    THEN RStrip(SubSeq(s, 1, Len(s) - 1))
    ELSE s

\* a strip that removes whitespace everywhere, not only at the two ends
StripEverywhere(s) == SelectSeq(s, LAMBDA c : c \notin Whitespace)

\* str.strip()
Strip(s) == RStrip(LStrip(s))

-----------------------------------------------------------------------------
(* The Python values a generation result can be: a str, a dict (its items  *)
(* in insertion order, keys unique), or another object such as an int or   *)
(* None.  kind is the name of the value's Python type.                     *)

PyStr(s) == [kind |-> "str", s |-> s]
PyInt(n) == [kind |-> "int", n |-> n]
PyNone == [kind |-> "NoneType"]
PyBool(b) == [kind |-> "bool", b |-> b]
PyList(elems) == [kind |-> "list", elems |-> elems]
PyDict(items) == [kind |-> "dict", items |-> items]

TEMPLATE_KEY == <<"t", "e", "m", "p", "l", "a", "t", "e">>
JSON_KEY == <<"j", "s", "o", "n">>

\* Python's (key in d)
HasKey(d, key) == \E i \in 1..Len(d.items) : d.items[i][1] = key

\* Python's d[key], for a key the dict holds
GetItem(d, key) ==
    LET i == CHOOSE j \in 1..Len(d.items) : d.items[j][1] = key
    IN  d.items[i][2]

RECURSIVE Digits(_)
\* the decimal digits of a natural number
Digits(n) ==
    IF n < 10 THEN <<ToString(n)>>
    ELSE Digits(n \div 10) \o <<ToString(n % 10)>>

\* repr() of one character inside a str literal quoted with q
ReprChar(c, q) ==
    IF c = "\\" THEN <<"\\", "\\">>
    ELSE IF c = "\n" THEN <<"\\", "n">>
    ELSE IF c = "\t" THEN <<"\\", "t">>
    ELSE IF c = "\r" THEN <<"\\", "r">>
    ELSE IF c = q THEN <<"\\", c>>
    ELSE <<c>>

\* repr() of a str: single quotes unless the text holds a single quote and
\* no double quote
ReprStr(s) ==
    LET q == IF "'" \in Range(s) /\ "\"" \notin Range(s) THEN "\"" ELSE "'"
    IN  <<q>> \o Concat([i \in 1..Len(s) |-> ReprChar(s[i], q)]) \o <<q>>

RECURSIVE Repr(_)
RECURSIVE JoinItems(_, _)
\* ", ".join of the items of a dict, each as repr(key): repr(value)
JoinItems(items, i) ==
    IF i > Len(items) THEN <<>>
    ELSE (IF i > 1 THEN <<",", " ">> ELSE <<>>)
         \o ReprStr(items[i][1]) \o <<":", " ">> \o Repr(items[i][2])
         \o JoinItems(items, i + 1)

\* repr() of a value
Repr(v) ==
    CASE v.kind = "str" -> ReprStr(v.s)
      [] v.kind = "int" -> Digits(v.n)
      [] v.kind = "NoneType" -> <<"N", "o", "n", "e">>
      [] v.kind = "dict" -> <<"{">> \o JoinItems(v.items, 1) \o <<"}">>

\* str() of a value: the text itself for a str, repr() for the others
Str(v) == IF v.kind = "str" THEN v.s ELSE Repr(v)

-----------------------------------------------------------------------------
(* clean_template_output: main.py and JinjaTemplateGenerator hold the same *)
(* body.                                                                   *)

\* a sanitizer whose strip removes inner whitespace too
clean_template_output_strip_all(res) ==
    LET r1 == IF res.kind = "dict" /\ HasKey(res, TEMPLATE_KEY)
              THEN GetItem(res, TEMPLATE_KEY) ELSE res
        r2 == IF r1.kind # "str" THEN Str(r1) ELSE r1.s
        r3 == Replace(Replace(Replace(r2, FENCE_HTML, <<>>),
                              FENCE_JINJA, <<>>), FENCE, <<>>)
        r4 == Replace(r3, <<NEWLINE>>, <<>>)
    IN  StripEverywhere(r4)

\* a sanitizer that removes only the first occurrence of each marker
clean_template_output_first_only(res) ==
    LET r1 == IF res.kind = "dict" /\ HasKey(res, TEMPLATE_KEY)
              THEN GetItem(res, TEMPLATE_KEY) ELSE res
        r2 == IF r1.kind # "str" THEN Str(r1) ELSE r1.s
        r3 == ReplaceFirst(ReplaceFirst(ReplaceFirst(r2, FENCE_HTML, <<>>),
                              FENCE_JINJA, <<>>), FENCE, <<>>)
        r4 == Replace(r3, <<NEWLINE>>, <<>>)
    IN  Strip(r4)

clean_template_output(res) ==
    LET \* if isinstance(result, dict) and "template" in result
        r1 == IF res.kind = "dict" /\ HasKey(res, TEMPLATE_KEY)
              THEN GetItem(res, TEMPLATE_KEY) ELSE res
        \* if not isinstance(result, str): result = str(result)
        r2 == IF r1.kind # "str" THEN Str(r1) ELSE r1.s
        \* .replace(html fence, "").replace(jinja fence, "").replace(fence, "")
        r3 == Replace(Replace(Replace(r2, FENCE_HTML, <<>>),
                              FENCE_JINJA, <<>>), FENCE, <<>>)
        \* result.replace("\n", "")
        r4 == Replace(r3, <<NEWLINE>>, <<>>)
    IN  \* result.strip()
        Strip(r4)

-----------------------------------------------------------------------------
(* The sanitizer on its own: a result is drawn, cleaned, and the cleaned   *)
(* text is cleaned once more.                                              *)

\* the pieces raw results are put together from
Chunks ==
    { <<BT>>, FENCE, <<"\n">>, <<" ">>, <<"x">>,
      <<"h", "t", "m", "l">>, <<"j", "i", "n", "j", "a">>,
      <<"j", "s", "o", "n">> }

\* the texts of at most n pieces
Texts(n) == {Concat(ps) : ps \in UNION {[1..k -> Chunks] : k \in 0..n}}

\* what a mapping result holds under a key
DictValues == {PyStr(t) : t \in Texts(MaxDictPieces)} \cup {PyInt(7), PyNone}

SanInputs ==
    {PyStr(t) : t \in Texts(MaxPieces)}
    \cup {PyDict(<<>>), PyInt(7), PyNone}
    \cup {PyDict(<< <<k, v>> >>) : k \in {TEMPLATE_KEY, JSON_KEY}, v \in DictValues}
    \cup {PyDict(<< <<JSON_KEY, PyNone>>, <<TEMPLATE_KEY, v>> >>) : v \in DictValues}

NoValue == [kind |-> "unset"]

ReqIdle ==
    /\ entry = "off"
    /\ pc = "off"
    /\ body = NoValue
    /\ request = NoValue
    /\ detail_level = NoValue
    /\ agent = NoValue
    /\ existing_template = <<>>
    /\ tasks = <<>>
    /\ crew = NoValue
    /\ executed = <<>>
    /\ result = NoValue
    /\ final_template = <<>>
    /\ exc = NoValue
    /\ response = NoValue
    /\ env = NoValue
    /\ api_key = NoValue
    /\ stdout = <<>>
    /\ inputs = NoValue
    /\ stages = <<>>

AnIdle ==
    /\ an_pc = "off"
    /\ json_data = PyNone
    /\ structure_info = <<>>
    /\ an_text = ""

DecIdle ==
    /\ dec_pc = "off"
    /\ dec_template = NoValue
    /\ dec_input = <<>>
    /\ dec_outcome = NoValue

SanInit ==
    /\ san_pc = "start"
    /\ san_result \in SanInputs
    /\ san_clean = <<>>
    /\ san_again = <<>>
    /\ AnIdle
    /\ DecIdle
    /\ ReqIdle

\* final_template = clean_template_output(result)
Clean ==
    /\ san_pc = "start"
    /\ san_clean' = clean_template_output(san_result)
    /\ san_pc' = "cleaned"
    /\ UNCHANGED <<san_result, san_again, anVars, decVars, reqVars>>

\* the cleaned text handed to clean_template_output again
CleanAgain ==
    /\ san_pc = "cleaned"
    /\ san_again' = clean_template_output(PyStr(san_clean))
    /\ san_pc' = "recleaned"
    /\ UNCHANGED <<san_result, san_clean, anVars, decVars, reqVars>>

SanNext == Clean \/ CleanAgain

SpecSanitize == SanInit /\ [][SanNext]_vars

-----------------------------------------------------------------------------
(* Properties of the sanitizer.                                            *)

\* no fence marker occurs in s
FenceFree(s) ==
    /\ ~Contains(s, FENCE_HTML)
    /\ ~Contains(s, FENCE_JINJA)
    /\ ~Contains(s, FENCE_JSON)
    /\ ~Contains(s, FENCE)

NewlineFree(s) == NEWLINE \notin Range(s)

\* neither the first nor the last character is whitespace
Trimmed(s) == s = <<>> \/ (s[1] \notin Whitespace /\ s[Len(s)] \notin Whitespace)

\* C2: the sanitizer's output never contains a newline nor any of the
\* fence markers, whatever the input.
C2_OutputHasNoFenceNoNewline ==
    san_pc \in {"cleaned", "recleaned"}
        => NewlineFree(san_clean) /\ FenceFree(san_clean)

\* C3: the sanitizer is idempotent: cleaning its own output returns that
\* output unchanged.
C3_SanitizerIdempotent ==
    san_pc = "recleaned" => san_again = san_clean

\* C4 as stated: every string free of fence markers and newlines is returned
\* unchanged, leading and trailing whitespace included.
C4_FenceFreeStringIsFixedPoint ==
    (/\ san_pc = "cleaned"
     /\ san_result.kind = "str"
     /\ FenceFree(san_result.s)
     /\ NewlineFree(san_result.s))
        => san_clean = san_result.s

\* C4 amended: every string free of fence markers and newlines that neither
\* starts nor ends with whitespace is returned unchanged.
C4_TrimmedFenceFreeStringIsFixedPoint ==
    (/\ san_pc = "cleaned"
     /\ san_result.kind = "str"
     /\ FenceFree(san_result.s)
     /\ NewlineFree(san_result.s)
     /\ Trimmed(san_result.s))
        => san_clean = san_result.s

\* a cleaned string of the amended C4's kind that holds inner whitespace and
\* a lone backtick
C4_Witness ==
    /\ san_pc = "cleaned"
    /\ san_result.kind = "str"
    /\ FenceFree(san_result.s)
    /\ NewlineFree(san_result.s)
    /\ Trimmed(san_result.s)
    /\ Len(san_result.s) >= 3
    /\ " " \in Range(san_result.s)
    /\ BT \in Range(san_result.s)

(* The five-step pipeline of the specification, written from its text: the *)
(* leftmost occurrence of a marker is cut out and the search goes on in    *)
(* what follows it.                                                        *)

\* the position of the leftmost occurrence of m in s, 0 when there is none
FirstOccurrence(s, m) ==
    IF Contains(s, m)
    THEN CHOOSE i \in 1..Len(s) :
            OccursAt(s, m, i) /\ \A j \in 1..(i - 1) : ~OccursAt(s, m, j)
    ELSE 0

RECURSIVE RemoveAll(_, _)
RemoveAll(s, m) ==
    LET i == FirstOccurrence(s, m)
    IN  IF i = 0 THEN s
        ELSE SubSeq(s, 1, i - 1) \o RemoveAll(SubSeq(s, i + Len(m), Len(s)), m)

\* s without the whitespace before its first and after its last
\* non-whitespace character
Trim(s) ==
    LET keep == {i \in 1..Len(s) : s[i] \notin Whitespace}
    IN  IF keep = {} THEN <<>>
        ELSE SubSeq(s, CHOOSE i \in keep : \A j \in keep : i <= j,
                       CHOOSE i \in keep : \A j \in keep : i >= j)

\* steps 1 and 2: the payload entry when there is one, as a string
PayloadText(res, payloadKey) ==
    LET r == IF res.kind = "dict" /\ HasKey(res, payloadKey)
             THEN GetItem(res, payloadKey) ELSE res
    IN  Str(r)

\* the pipeline as specified: four markers, then newlines, then the trim
SpecifiedPipeline(res, payloadKey) ==
    LET t == PayloadText(res, payloadKey)
        u == RemoveAll(RemoveAll(RemoveAll(RemoveAll(t, FENCE_HTML),
                 FENCE_JINJA), FENCE_JSON), FENCE)
    IN  Trim(SelectSeq(u, LAMBDA c : c # NEWLINE))

\* the pipeline with the "template" key alone and without the json marker
ThreeMarkerPipeline(res) ==
    LET t == PayloadText(res, TEMPLATE_KEY)
        u == RemoveAll(RemoveAll(RemoveAll(t, FENCE_HTML), FENCE_JINJA), FENCE)
    IN  Trim(SelectSeq(u, LAMBDA c : c # NEWLINE))

\* C5 as stated: the sanitizer's result is that of the five-step pipeline
\* with the payload key "template" or "json" and the four markers html,
\* jinja, json and bare fence.
C5_EqualsSpecifiedPipeline ==
    san_pc = "cleaned"
        => \E key \in {TEMPLATE_KEY, JSON_KEY} :
              san_clean = SpecifiedPipeline(san_result, key)

\* C5 amended: the sanitizer's result is that of the pipeline whose payload
\* key is "template" only and whose markers are the html fence, the jinja
\* fence and the bare fence, every occurrence removed, then newlines, then
\* the trim.
C5_EqualsThreeMarkerPipeline ==
    san_pc = "cleaned" => san_clean = ThreeMarkerPipeline(san_result)

\* a cleaned result that held a marker twice
C5_Witness ==
    /\ san_pc = "cleaned"
    /\ san_result.kind = "str"
    /\ \E i, j \in 1..Len(san_result.s) :
          /\ OccursAt(san_result.s, FENCE, i)
          /\ OccursAt(san_result.s, FENCE_HTML, j)
          /\ i + 3 <= j
    /\ san_clean # <<>>

-----------------------------------------------------------------------------
(* analyze_json_structure.  Keys, paths and lines are whole strings: the   *)
(* code only concatenates them.  A JSON document is a Python value whose   *)
(* dict keys are such strings.                                             *)

\* type(v).__name__
TypeName(v) == v.kind

IsContainer(v) == v.kind \in {"dict", "list"}

\* a path that is dotted at the top level too
new_path_always_dotted(path, k) == path \o "." \o k

\* new_path = f"{path}.{k}" if path else k
new_path(path, k) == IF path # "" THEN path \o "." \o k ELSE k

\* f"{new_path}: {type(v).__name__}"
scalar_line(path, v) == path \o ": " \o TypeName(v)

\* f"{path} is an array with {len(data)} items"
nested_array_line(path, data) ==
    path \o " is an array with " \o ToString(Len(data.elems)) \o " items"

\* a count that leaves the inspected element out
scalar_array_line_off_by_one(path, data) ==
    path \o " is an array of " \o TypeName(data.elems[1])
         \o " with " \o ToString(Len(data.elems) - 1) \o " items"

\* f"{path} is an array of {item_type} with {len(data)} items"
scalar_array_line(path, data) ==
    path \o " is an array of " \o TypeName(data.elems[1])
         \o " with " \o ToString(Len(data.elems)) \o " items"

\* f"{path}[0]"
first_item_path(path) == path \o "[0]"

RECURSIVE traverse(_, _, _)
RECURSIVE traverse_items(_, _, _, _)
\* main.py: the loop over data.items(), from the i-th item on; info is
\* structure_info as it stands
traverse_items(items, i, path, info) ==
    IF i > Len(items) THEN info
    ELSE LET k == items[i][1]
             v == items[i][2]
             p == new_path(path, k)
         IN  traverse_items(items, i + 1, path,
                IF IsContainer(v) THEN traverse(v, p, info)
                ELSE Append(info, scalar_line(p, v)))

\* main.py: traverse(data, path), returning structure_info after the call
traverse(data, path, info) ==
    IF data.kind = "dict" THEN traverse_items(data.items, 1, path, info)
    ELSE IF data.kind = "list" /\ data.elems # <<>>
    THEN IF IsContainer(data.elems[1])
         THEN traverse(data.elems[1], first_item_path(path),
                       Append(info, nested_array_line(path, data)))
         ELSE Append(info, scalar_array_line(path, data))
    ELSE info

\* f"{path} is an array"
generator_array_line(path) == path \o " is an array"

RECURSIVE generator_traverse(_, _, _)
RECURSIVE generator_traverse_items(_, _, _, _)
\* JinjaTemplateGenerator: the loop over data.items()
generator_traverse_items(items, i, path, info) ==
    IF i > Len(items) THEN info
    ELSE generator_traverse_items(items, i + 1, path,
            generator_traverse(items[i][2], new_path(path, items[i][1]), info))

\* JinjaTemplateGenerator: traverse(data, path)
generator_traverse(data, path, info) ==
    IF data.kind = "dict"
    THEN generator_traverse_items(data.items, 1, path, info)
    ELSE IF data.kind = "list" /\ data.elems # <<>>
    THEN generator_traverse(data.elems[1], first_item_path(path),
                            Append(info, generator_array_line(path)))
    ELSE info

RECURSIVE JoinLines(_)
\* "\n".join(structure_info)
JoinLines(lines) ==
    IF lines = <<>> THEN ""
    ELSE IF Len(lines) = 1 THEN lines[1]
    ELSE lines[1] \o "\n" \o JoinLines(Tail(lines))

-----------------------------------------------------------------------------
(* The analyzer on its own: a sample document is drawn and analyzed by     *)
(* main.py's function or by JinjaTemplateGenerator's.                      *)

Keys == {"a", "b"}

Scalars == {PyNone, PyBool(TRUE), PyInt(1), PyStr(<<"x">>)}

\* the sequences of n distinct keys
KeySeqs(n) ==
    {ks \in [1..n -> Keys] : \A i, j \in 1..n : i # j => ks[i] # ks[j]}

RECURSIVE ValuesOfSize(_)
RECURSIVE ForestsOfSize(_)
\* the sequences of values that hold n values in all
ForestsOfSize(n) ==
    IF n = 0 THEN {<<>>}
    ELSE UNION {{<<v>> \o rest : v \in ValuesOfSize(k),
                                 rest \in ForestsOfSize(n - k)} : k \in 1..n}

\* the values that hold n values in all, themselves included
ValuesOfSize(n) ==
    IF n = 1 THEN Scalars \cup {PyList(<<>>), PyDict(<<>>)}
    ELSE {PyList(f) : f \in ForestsOfSize(n - 1)}
         \cup UNION {{PyDict([i \in 1..Len(f) |-> <<ks[i], f[i]>>]) :
                         ks \in KeySeqs(Len(f))} :
                     f \in {g \in ForestsOfSize(n - 1) :
                               Len(g) <= Cardinality(Keys)}}

\* sample documents: the dicts of at most MaxNodes values
SampleDocuments ==
    {d \in UNION {ValuesOfSize(n) : n \in 1..MaxNodes} : d.kind = "dict"}

SanIdle ==
    /\ san_pc = "off"
    /\ san_result = PyNone
    /\ san_clean = <<>>
    /\ san_again = <<>>

AnInit ==
    /\ an_pc = "start"
    /\ json_data \in SampleDocuments
    /\ structure_info = <<>>
    /\ an_text = ""
    /\ SanIdle
    /\ DecIdle
    /\ ReqIdle

\* main.py: analyze_json_structure(json_data)
AnalyzeMain ==
    /\ an_pc = "start"
    /\ structure_info' = traverse(json_data, "", <<>>)
    /\ an_text' = JoinLines(structure_info')
    /\ an_pc' = "main"
    /\ UNCHANGED <<json_data, sanVars, decVars, reqVars>>

\* JinjaTemplateGenerator.analyze_json_structure(json_data)
AnalyzeGenerator ==
    /\ an_pc = "start"
    /\ structure_info' = generator_traverse(json_data, "", <<>>)
    /\ an_text' = JoinLines(structure_info')
    /\ an_pc' = "generator"
    /\ UNCHANGED <<json_data, sanVars, decVars, reqVars>>

AnNext == AnalyzeMain \/ AnalyzeGenerator

SpecAnalyze == AnInit /\ [][AnNext]_vars

-----------------------------------------------------------------------------
(* Properties of the analyzer.                                             *)

\* the path of a mapping's entry: the bare key at the top, parent.key below
EntryPath(p, k) == IF p = "" THEN k ELSE p \o "." \o k

RECURSIVE Visited(_, _)
\* the <<path, value>> pairs the traversal reaches from v at path p: v, the
\* entries of a mapping, and the first element of a sequence when that
\* element is a mapping or a sequence
Visited(v, p) ==
    {<<p, v>>} \cup
    (IF v.kind = "dict"
     THEN UNION {Visited(v.items[i][2], EntryPath(p, v.items[i][1])) :
                    i \in 1..Len(v.items)}
     ELSE IF v.kind = "list" /\ v.elems # <<>> /\ IsContainer(v.elems[1])
     THEN Visited(v.elems[1], p \o "[0]")
     ELSE {})

VisitedLists(doc) == {pv \in Visited(doc, "") : pv[2].kind = "list"}
VisitedScalars(doc) == {pv \in Visited(doc, "") : ~IsContainer(pv[2])}

\* how many times x occurs among the lines
Count(lines, x) == Cardinality({i \in 1..Len(lines) : lines[i] = x})

ElementKinds == {"NoneType", "bool", "int", "float", "str", "object"}

\* every line that reports an array at path p
ArrayLineForms(p) ==
    {p \o " is an array"}
    \cup {p \o " is an array with " \o ToString(n) \o " items" :
             n \in 0..(MaxNodes + 1)}
    \cup {p \o " is an array of " \o K \o " with " \o ToString(n) \o " items" :
             K \in ElementKinds, n \in 0..(MaxNodes + 1)}

\* the lines among `lines` that report an array at path p
ArrayLinesAt(lines, p) == {i \in 1..Len(lines) : lines[i] \in ArrayLineForms(p)}

\* "p is an array of K with n items", K being "object" for a first element
\* that is a mapping or a sequence
ClaimedArrayLine(p, v) ==
    p \o " is an array of "
      \o (IF IsContainer(v.elems[1]) THEN "object" ELSE v.elems[1].kind)
      \o " with " \o ToString(Len(v.elems)) \o " items"

\* what main.py writes: no "of K" for a first element that is a mapping or
\* a sequence
MainArrayLine(p, v) ==
    IF IsContainer(v.elems[1])
    THEN p \o " is an array with " \o ToString(Len(v.elems)) \o " items"
    ELSE p \o " is an array of " \o v.elems[1].kind
           \o " with " \o ToString(Len(v.elems)) \o " items"

GeneratorArrayLine(p, v) == p \o " is an array"

\* the array line in one of the three forms
ArrayLine(form, p, v) ==
    CASE form = "claimed" -> ClaimedArrayLine(p, v)
      [] form = "main" -> MainArrayLine(p, v)
      [] form = "generator" -> GeneratorArrayLine(p, v)

\* each visited sequence contributes no line when empty and exactly the
\* line of the given form otherwise
EachListContributes(form) ==
    \A pv \in VisitedLists(json_data) :
        IF pv[2].elems = <<>>
        THEN ArrayLinesAt(structure_info, pv[1]) = {}
        ELSE /\ Cardinality(ArrayLinesAt(structure_info, pv[1])) = 1
             /\ Count(structure_info, ArrayLine(form, pv[1], pv[2])) = 1

NonEmptyLists(doc) == {pv \in VisitedLists(doc) : pv[2].elems # <<>>}

EachScalarHasItsLine ==
    \A pv \in VisitedScalars(json_data) :
        Count(structure_info, pv[1] \o ": " \o pv[2].kind) = 1

\* no visited scalar entry contributes a line
NoScalarHasALine ==
    \A pv \in VisitedScalars(json_data) :
        \A K \in ElementKinds : Count(structure_info, pv[1] \o ": " \o K) = 0

RECURSIVE DepthFirst(_, _, _)
\* the lines of v at path p in depth-first order, the entries of a mapping
\* in their iteration order; scalar entries have a line when withScalars
DepthFirst(v, p, withScalars) ==
    IF v.kind = "dict"
    THEN Concat([i \in 1..Len(v.items) |->
            LET q == EntryPath(p, v.items[i][1])
                w == v.items[i][2]
            IN  IF IsContainer(w) THEN DepthFirst(w, q, withScalars)
                ELSE IF withScalars THEN <<q \o ": " \o w.kind>>
                ELSE <<>>])
    ELSE IF v.kind = "list" /\ v.elems # <<>>
    THEN <<IF withScalars THEN MainArrayLine(p, v) ELSE GeneratorArrayLine(p, v)>>
         \o (IF IsContainer(v.elems[1])
             THEN DepthFirst(v.elems[1], p \o "[0]", withScalars)
             ELSE <<>>)
    ELSE <<>>

\* C7 as stated: whichever analyze_json_structure ran, each scalar entry of a
\* visited mapping contributes exactly one line "path: typeName".
C7_EachScalarEntryHasOneLine ==
    an_pc \in {"main", "generator"} => EachScalarHasItsLine

\* C7 amended: in main.py each scalar entry of a visited mapping contributes
\* exactly one line "path: typeName", the path being the bare key at the top
\* and parent.key below; in JinjaTemplateGenerator scalar entries contribute
\* no line.  In both, nested mappings contribute only their descendants'
\* lines and the lines stand in depth-first order, the entries of a mapping
\* in their iteration order.
C7_ScalarLinesDepthFirst ==
    /\ an_pc = "main" =>
          /\ EachScalarHasItsLine
          /\ structure_info = DepthFirst(json_data, "", TRUE)
    /\ an_pc = "generator" =>
          /\ NoScalarHasALine
          /\ structure_info = DepthFirst(json_data, "", FALSE)

\* main.py analyzed a document like {"a": 1, "b": {"a": "x"}}: a scalar
\* entry, then a nested mapping that holds one
C7_Witness ==
    /\ an_pc = "main"
    /\ Len(json_data.items) = 2
    /\ ~IsContainer(json_data.items[1][2])
    /\ json_data.items[2][2].kind = "dict"
    /\ Len(json_data.items[2][2].items) = 1
    /\ ~IsContainer(json_data.items[2][2].items[1][2])
    /\ Len(structure_info) = 2

-----------------------------------------------------------------------------
(* base64.b64decode(s.encode("utf-8")).decode("utf-8"): binascii's         *)
(* a2b_base64 in its default, non-strict mode, then the UTF-8 decoder.     *)
(* Bytes are numbers 0..255, the decoded text a sequence of code points.   *)

B64Alphabet ==
    << "A", "B", "C", "D", "E", "F", "G", "H", "I", "J", "K", "L", "M",
       "N", "O", "P", "Q", "R", "S", "T", "U", "V", "W", "X", "Y", "Z",
       "a", "b", "c", "d", "e", "f", "g", "h", "i", "j", "k", "l", "m",
       "n", "o", "p", "q", "r", "s", "t", "u", "v", "w", "x", "y", "z",
       "0", "1", "2", "3", "4", "5", "6", "7", "8", "9", "+", "/" >>

IsB64Char(c) == \E i \in 1..Len(B64Alphabet) : B64Alphabet[i] = c

\* the six bits a character of the alphabet stands for
B64Value(c) == (CHOOSE i \in 1..Len(B64Alphabet) : B64Alphabet[i] = c) - 1

DecodeOk(v) == [ok |-> TRUE, value |-> v]
DecodeError(type, msg) == [ok |-> FALSE, type |-> type, msg |-> msg]

RECURSIVE a2b_base64(_, _, _, _, _, _)
\* the loop of a2b_base64 from character i on: quad_pos is the position in
\* the current group of four, leftchar the bits not yet written, pads the
\* padding characters seen since the last data character, out the bytes
a2b_base64(s, i, quad_pos, leftchar, pads, out) ==
    IF i > Len(s)
    THEN IF quad_pos = 0 THEN DecodeOk(out)
         ELSE IF quad_pos = 1
         THEN DecodeError("binascii.Error",
                "Invalid base64-encoded string: number of data characters ("
                \o ToString((Len(out) \div 3) * 4 + 1)
                \o ") cannot be 1 more than a multiple of 4")
         ELSE DecodeError("binascii.Error", "Incorrect padding")
    ELSE IF s[i] = "="
    THEN IF quad_pos >= 2 /\ quad_pos + pads + 1 >= 4
         THEN DecodeOk(out)
         ELSE a2b_base64(s, i + 1, quad_pos, leftchar,
                         IF quad_pos >= 2 THEN pads + 1 ELSE pads, out)
    ELSE IF ~IsB64Char(s[i])
    THEN a2b_base64(s, i + 1, quad_pos, leftchar, pads, out)
    ELSE LET c == B64Value(s[i])
         IN  CASE quad_pos = 0 ->
                    a2b_base64(s, i + 1, 1, c, 0, out)
               [] quad_pos = 1 ->
                    a2b_base64(s, i + 1, 2, c % 16, 0,
                               Append(out, leftchar * 4 + c \div 16))
               [] quad_pos = 2 ->
                    a2b_base64(s, i + 1, 3, c % 4, 0,
                               Append(out, leftchar * 16 + c \div 4))
               [] quad_pos = 3 ->
                    a2b_base64(s, i + 1, 0, 0, 0,
                               Append(out, leftchar * 64 + c))

\* base64.b64decode(s)
b64decode(s) == a2b_base64(s, 1, 0, 0, 0, <<>>)

IsContinuation(b) == b >= 128 /\ b <= 191

RECURSIVE utf8_decode(_, _, _)
\* bytes.decode("utf-8") from byte i on, out the code points so far
utf8_decode(b, i, out) ==
    LET n == Len(b)
        bad == DecodeError("UnicodeDecodeError", "'utf-8' codec can't decode byte")
    IN
    IF i > n THEN DecodeOk(out)
    ELSE IF b[i] < 128 THEN utf8_decode(b, i + 1, Append(out, b[i]))
    ELSE IF b[i] >= 194 /\ b[i] <= 223
    THEN IF i + 1 <= n /\ IsContinuation(b[i + 1])
         THEN utf8_decode(b, i + 2,
                  Append(out, (b[i] - 192) * 64 + (b[i + 1] - 128)))
         ELSE bad
    ELSE IF b[i] >= 224 /\ b[i] <= 239
    THEN IF /\ i + 2 <= n
            /\ IsContinuation(b[i + 1])
            /\ IsContinuation(b[i + 2])
            /\ (b[i] = 224 => b[i + 1] >= 160)
            /\ (b[i] = 237 => b[i + 1] <= 159)
         THEN utf8_decode(b, i + 3,
                  Append(out, (b[i] - 224) * 4096 + (b[i + 1] - 128) * 64
                              + (b[i + 2] - 128)))
         ELSE bad
    ELSE IF b[i] >= 240 /\ b[i] <= 244
    THEN IF /\ i + 3 <= n
            /\ IsContinuation(b[i + 1])
            /\ IsContinuation(b[i + 2])
            /\ IsContinuation(b[i + 3])
            /\ (b[i] = 240 => b[i + 1] >= 144)
            /\ (b[i] = 244 => b[i + 1] <= 143)
         THEN utf8_decode(b, i + 4,
                  Append(out, (b[i] - 240) * 262144 + (b[i + 1] - 128) * 4096
                              + (b[i + 2] - 128) * 64 + (b[i + 3] - 128)))
         ELSE bad
    ELSE bad

\* base64.b64decode(existing_template.encode("utf-8")).decode("utf-8")
decode_existing_template(s) ==
    LET raw == b64decode(s)
    IN  IF raw.ok THEN utf8_decode(raw.value, 1, <<>>) ELSE raw

-----------------------------------------------------------------------------
(* The request pipeline: generate_template of main.py behind POST          *)
(* /generate-template/, and JinjaTemplateGenerator.generate_template as    *)
(* the cloud function BusinessCentral_Sync calls it.  The texts of the     *)
(* prompts are not modelled; user_prompt and variables only feed them.     *)

UpperLetters ==
    << "A", "B", "C", "D", "E", "F", "G", "H", "I", "J", "K", "L", "M",
       "N", "O", "P", "Q", "R", "S", "T", "U", "V", "W", "X", "Y", "Z" >>
LowerLetters ==
    << "a", "b", "c", "d", "e", "f", "g", "h", "i", "j", "k", "l", "m",
       "n", "o", "p", "q", "r", "s", "t", "u", "v", "w", "x", "y", "z" >>

LowerChar(c) ==
    IF \E i \in 1..Len(UpperLetters) : UpperLetters[i] = c
    THEN LowerLetters[CHOOSE i \in 1..Len(UpperLetters) : UpperLetters[i] = c]
    ELSE c

\* str.lower()
lower(s) == [i \in 1..Len(s) |-> LowerChar(s[i])]

LOW == <<"l", "o", "w">>
MEDIUM == <<"m", "e", "d", "i", "u", "m">>
HIGH == <<"h", "i", "g", "h">>

\* Python's bool(x) for None, a str or a dict
Bool(x) ==
    CASE x.kind = "NoneType" -> FALSE
      [] x.kind = "str" -> x.s # <<>>
      [] x.kind = "dict" -> x.items # <<>>

\* a field the JSON body does not hold
Absent == [kind |-> "absent"]

\* get_generic_jinja_html_modifier(detail_level)
get_generic_jinja_html_modifier(level) ==
    [ role |-> "Generic Jinja Template Modifier",
      verbose |-> level \in {MEDIUM, HIGH},
      allow_delegation |-> level = HIGH ]

\* get_generic_jinja_template_creator(detail_level)
get_generic_jinja_template_creator(level) ==
    [ role |-> "Generic Jinja Template Creator",
      verbose |-> level \in {MEDIUM, HIGH},
      allow_delegation |-> level = HIGH ]

\* JinjaTemplateGenerator.get_agent(detail_level, modify)
get_agent(level, modify) ==
    IF modify THEN get_generic_jinja_html_modifier(level)
    ELSE get_generic_jinja_template_creator(level)

output_parser ==
    [ role |-> "Output Validator and Cleaner",
      verbose |-> TRUE,
      allow_delegation |-> FALSE ]

\* main.py: analyze_json_structure(json_data)
analyze_json_structure(doc) == JoinLines(traverse(doc, "", <<>>))

\* JinjaTemplateGenerator.analyze_json_structure(json_data)
generator_analyze_json_structure(doc) ==
    JoinLines(generator_traverse(doc, "", <<>>))

\* the template task of create_tasks
template_task(ag, has_template, info) ==
    [ kind |-> "template",
      description |-> IF has_template THEN "modify" ELSE "create",
      json_structure_info |-> info,
      agent |-> ag.role ]

\* the validation task of create_tasks
validation_task ==
    [ kind |-> "validation",
      description |-> "clean and validate",
      json_structure_info |-> "",
      agent |-> output_parser.role ]

\* a task list whose validation task is kept for the high level only
build_tasks_high_only(level, ag, has_template, info) ==
    <<template_task(ag, has_template, info)>>
    \o (IF level = HIGH THEN <<validation_task>> ELSE <<>>)

\* create_tasks from tasks = [] on, json_structure_info being computed
build_tasks(level, ag, has_template, info) ==
    <<template_task(ag, has_template, info)>>
    \o (IF level \in {MEDIUM, HIGH} THEN <<validation_task>> ELSE <<>>)

\* main.py: create_tasks(detail_level, agent, has_existing_template,
\* sample_json, variables)
create_tasks(level, ag, has_template, sample) ==
    build_tasks(level, ag, has_template, analyze_json_structure(sample))

\* JinjaTemplateGenerator.create_tasks(...)
generator_create_tasks(level, ag, has_template, sample) ==
    build_tasks(level, ag, has_template, generator_analyze_json_structure(sample))

\* a response that carries an envelope around the template
TemplateResponseWithEnvelope(jinja_template) ==
    [jinja_template |-> jinja_template, success |-> TRUE]

\* TemplateResponse(jinja_template=final_template)
TemplateResponse(jinja_template) == [jinja_template |-> jinja_template]

\* an exception: HTTPException carries a status code, the others 0
Exception(type, status_code, detail) ==
    [type |-> type, status_code |-> status_code, detail |-> detail]

\* str(e)
ExcStr(e) ==
    IF e.type = "HTTPException"
    THEN ToString(e.status_code) \o ": " \o e.detail
    ELSE e.detail

\* what the external framework (Agent, Task, Crew, kickoff) may raise
ProviderError == Exception("Exception", 0, "provider failure")

\* existing_template values: none, "", "QQ==" (the template "A"), "QQ"
\* (incorrect padding), "/w==" (the byte 0xFF, no UTF-8), "!!!!" (no
\* character of the alphabet)
ExistingTemplates ==
    { Absent, PyStr(<<>>), PyStr(<<"Q", "Q", "=", "=">>), PyStr(<<"Q", "Q">>),
      PyStr(<<"/", "w", "=", "=">>), PyStr(<<"!", "!", "!", "!">>) }

\* sample_json values: none, {}, {"a": 1}, {"a": [{"b": "x"}]}
SampleJsons ==
    { Absent, PyDict(<<>>), PyDict(<< <<"a", PyInt(1)>> >>),
      PyDict(<< <<"a", PyList(<< PyDict(<< <<"b", PyStr(<<"x">>)>> >>) >>)>> >>) }

DetailLevels ==
    { Absent, PyStr(LOW), PyStr(MEDIUM), PyStr(HIGH),
      PyStr(<<"H", "I", "G", "H">>), PyStr(<<"L", "o", "w">>),
      PyStr(<<"e", "x", "t", "r", "e", "m", "e">>) }

\* what kickoff may return: a fenced template, a clean one, a mapping with
\* the template, and backticks around a newline
KickoffResults ==
    { PyStr(FENCE_HTML \o <<"x", " ", "x", "\n">> \o FENCE \o <<"\n">>),
      PyStr(<<"x">>),
      PyDict(<< <<TEMPLATE_KEY, PyStr(<<"x", "\n", "x">>)>> >>),
      PyStr(<<BT, BT, "\n", BT>>) }

\* OPENAI_API_KEY: not in the environment, empty, or set
EnvKeys == {Absent, PyStr(<<>>), PyStr(<<"s", "k">>)}

WARNING == "Warning: OPENAI_API_KEY environment variable not set"

ReqInit ==
    /\ entry \in {"api", "cf"}
    /\ pc = IF entry = "api" THEN "import" ELSE "cf_read"
    /\ body \in [existing_template : ExistingTemplates,
                 sample_json : SampleJsons,
                 detail_level : DetailLevels]
    /\ request = NoValue
    /\ detail_level = NoValue
    /\ agent = NoValue
    /\ existing_template = <<>>
    /\ tasks = <<>>
    /\ crew = NoValue
    /\ executed = <<>>
    /\ result = NoValue
    /\ final_template = <<>>
    /\ exc = NoValue
    /\ response = NoValue
    /\ env \in EnvKeys
    /\ api_key = NoValue
    /\ stdout = <<>>
    /\ inputs = NoValue
    /\ stages = <<>>
    /\ SanIdle
    /\ AnIdle
    /\ DecIdle

\* raise e: main.py's handler runs inside try, whose except clause takes
\* over; nothing catches in JinjaTemplateGenerator or the cloud function,
\* and the request ends with the framework's error response
Raise(e) ==
    /\ exc' = e
    /\ IF entry = "api"
       THEN pc' = "except" /\ UNCHANGED response
       ELSE /\ pc' = "done"
            /\ response' = [status |-> 500, body |-> [unhandled |-> e.type]]

\* the statement named begins
Stage(name) == stages' = Append(stages, name)

\* os.getenv("OPENAI_API_KEY")
getenv == IF env = Absent THEN PyNone ELSE env

\* main.py is imported: api_key = os.getenv("OPENAI_API_KEY"), a warning
\* is printed when that is None or empty, and the app is ready
ImportMain ==
    /\ pc = "import"
    /\ api_key' = getenv
    /\ stdout' = IF ~Bool(getenv) THEN Append(stdout, WARNING) ELSE stdout
    /\ pc' = "validate"
    /\ UNCHANGED <<entry, body, request, detail_level, agent, existing_template,
                   tasks, crew, executed, result, final_template, exc,
                   response, env, inputs, stages, sanVars, anVars, decVars>>

\* FastAPI parses the body into TemplateRequest: sample_json is required,
\* existing_template defaults to None and detail_level to "high"
Validate ==
    /\ pc = "validate"
    /\ IF body.sample_json = Absent
       THEN /\ response' = [status |-> 422, body |-> [detail |-> "field required"]]
            /\ pc' = "done"
            /\ UNCHANGED request
       ELSE /\ request' =
                [ existing_template |->
                      IF body.existing_template = Absent THEN PyNone
                      ELSE body.existing_template,
                  sample_json |-> body.sample_json,
                  detail_level |->
                      IF body.detail_level = Absent THEN PyStr(HIGH)
                      ELSE body.detail_level ]
            /\ pc' = "normalize"
            /\ UNCHANGED response
    /\ UNCHANGED <<entry, body, detail_level, agent, existing_template, tasks,
                   crew, executed, result, final_template, exc, startVars,
                   inputs, stages, sanVars, anVars, decVars>>

\* main.py: detail_level = request.detail_level.lower(), "high" when that is
\* none of the three levels
Normalize ==
    /\ pc = "normalize"
    /\ detail_level' =
          IF lower(request.detail_level.s) \in {LOW, MEDIUM, HIGH}
          THEN PyStr(lower(request.detail_level.s))
          ELSE PyStr(HIGH)
    /\ pc' = "agent"
    /\ Stage("normalize")
    /\ UNCHANGED <<entry, body, request, agent, existing_template, tasks, crew,
                   executed, result, final_template, exc, response, startVars,
                   inputs, sanVars, anVars, decVars>>

\* BusinessCentral_Sync reads the body: request_json["sample_json"] must be
\* there, .get() gives None for the rest
CfRead ==
    /\ pc = "cf_read"
    /\ IF body.sample_json = Absent
       THEN /\ Raise(Exception("KeyError", 0, "'sample_json'"))
            /\ UNCHANGED <<request, detail_level>>
       ELSE /\ request' =
                [ existing_template |->
                      IF body.existing_template = Absent THEN PyNone
                      ELSE body.existing_template,
                  sample_json |-> body.sample_json,
                  detail_level |->
                      IF body.detail_level = Absent THEN PyNone
                      ELSE body.detail_level ]
            /\ detail_level' = request'.detail_level
            /\ pc' = "construct"
            /\ UNCHANGED <<exc, response>>
    /\ UNCHANGED <<entry, body, agent, existing_template, tasks, crew, executed,
                   result, final_template, startVars, inputs, stages,
                   sanVars, anVars, decVars>>

\* JinjaTemplateGenerator(): self.api_key = os.environ["OPENAI_API_KEY"]
\* raises KeyError when the variable is not there; a warning is printed
\* when it is empty
Construct ==
    /\ pc = "construct"
    /\ IF env = Absent
       THEN /\ Raise(Exception("KeyError", 0, "'OPENAI_API_KEY'"))
            /\ UNCHANGED <<api_key, stdout>>
       ELSE /\ api_key' = env
            /\ stdout' = IF ~Bool(env) THEN Append(stdout, WARNING) ELSE stdout
            /\ pc' = "agent"
            /\ UNCHANGED <<exc, response>>
    /\ UNCHANGED <<entry, body, request, detail_level, agent, existing_template,
                   tasks, crew, executed, result, final_template, env, inputs,
                   stages, sanVars, anVars, decVars>>

\* has_existing_template = bool(request.existing_template)
has_existing_template == Bool(request.existing_template)

\* the agent is built: main.py passes the normalized level,
\* JinjaTemplateGenerator passes detail_level.lower()
GetAgent ==
    /\ pc = "agent"
    /\ \/ /\ entry = "api"
          /\ agent' = IF has_existing_template
                      THEN get_generic_jinja_html_modifier(detail_level.s)
                      ELSE get_generic_jinja_template_creator(detail_level.s)
          /\ pc' = "decode"
          /\ UNCHANGED <<exc, response>>
       \/ /\ entry = "cf"
          /\ detail_level.kind = "str"
          /\ agent' = get_agent(lower(detail_level.s), has_existing_template)
          /\ pc' = "decode"
          /\ UNCHANGED <<exc, response>>
       \/ /\ entry = "cf"
          /\ detail_level.kind # "str"
          /\ Raise(Exception("AttributeError", 0,
                    "'NoneType' object has no attribute 'lower'"))
          /\ UNCHANGED agent
       \/ /\ entry = "api" \/ detail_level.kind = "str"
          /\ Raise(ProviderError)
          /\ UNCHANGED agent
    /\ Stage("agent")
    /\ UNCHANGED <<entry, body, request, detail_level, existing_template, tasks,
                   crew, executed, result, final_template, startVars, inputs,
                   sanVars, anVars, decVars>>

\* the existing template is decoded when there is one; a failure raises
\* HTTPException(400) in main.py and ValueError in JinjaTemplateGenerator
Decode ==
    /\ pc = "decode"
    /\ IF has_existing_template
       THEN LET d == decode_existing_template(request.existing_template.s)
                msg == "Invalid base64 encoding in existing_template: "
            IN  IF d.ok
                THEN /\ existing_template' = d.value
                     /\ pc' = "check_sample"
                     /\ UNCHANGED <<exc, response>>
                ELSE /\ Raise(IF entry = "api"
                              THEN Exception("HTTPException", 400, msg \o d.msg)
                              ELSE Exception("ValueError", 0, msg \o d.msg))
                     /\ UNCHANGED existing_template
       ELSE /\ pc' = "check_sample"
            /\ UNCHANGED <<existing_template, exc, response>>
    /\ Stage("decode")
    /\ UNCHANGED <<entry, body, request, detail_level, agent, tasks, crew,
                   executed, result, final_template, startVars, inputs,
                   sanVars, anVars, decVars>>

\* a check of sample_json that lets every request through
CheckSampleSkipped ==
    /\ pc = "check_sample"
    /\ pc' = "tasks"
    /\ Stage("check_sample")
    /\ UNCHANGED <<entry, body, request, detail_level, agent, existing_template,
                   tasks, crew, executed, result, final_template, exc,
                   response, startVars, inputs, sanVars, anVars, decVars>>

\* if not sample_json: raise
CheckSample ==
    /\ pc = "check_sample"
    /\ IF ~Bool(request.sample_json)
       THEN Raise(IF entry = "api"
                  THEN Exception("HTTPException", 400, "Sample JSON data is required.")
                  ELSE Exception("ValueError", 0, "Sample JSON data is required."))
       ELSE pc' = "tasks" /\ UNCHANGED <<exc, response>>
    /\ Stage("check_sample")
    /\ UNCHANGED <<entry, body, request, detail_level, agent, existing_template,
                   tasks, crew, executed, result, final_template, startVars,
                   inputs, sanVars, anVars, decVars>>

\* tasks = create_tasks(detail_level, agent, has_existing_template,
\* sample_json, variables), which analyzes the structure of sample_json
CreateTasks ==
    /\ pc = "tasks"
    /\ \/ /\ tasks' = IF entry = "api"
                      THEN create_tasks(detail_level.s, agent,
                               has_existing_template, request.sample_json)
                      ELSE generator_create_tasks(detail_level.s, agent,
                               has_existing_template, request.sample_json)
          /\ pc' = "crew"
          /\ UNCHANGED <<exc, response>>
       \/ /\ Raise(ProviderError)
          /\ UNCHANGED tasks
    /\ Stage("create_tasks")
    /\ UNCHANGED <<entry, body, request, detail_level, agent, existing_template,
                   crew, executed, result, final_template, startVars, inputs,
                   sanVars, anVars, decVars>>

\* jinja_crew = Crew(agents=[agent, output_parser], tasks=tasks,
\* process=Process.sequential, verbose=(detail_level == "high"))
BuildCrew ==
    /\ pc = "crew"
    /\ \/ /\ crew' = [ agents |-> <<agent.role, output_parser.role>>,
                       tasks |-> tasks,
                       process |-> "sequential",
                       verbose |-> detail_level.s = HIGH ]
          /\ pc' = "kickoff"
          /\ UNCHANGED <<exc, response>>
       \/ /\ Raise(ProviderError)
          /\ UNCHANGED crew
    /\ Stage("crew")
    /\ UNCHANGED <<entry, body, request, detail_level, agent, existing_template,
                   tasks, executed, result, final_template, startVars, inputs,
                   sanVars, anVars, decVars>>

\* inputs = {...}; jinja_crew.kickoff(inputs=inputs) is called
Kickoff ==
    /\ pc = "kickoff"
    /\ inputs' = [ existing_template |-> existing_template,
                   sample_json |-> request.sample_json,
                   detail_level |-> detail_level,
                   max_iterations |-> 3 ]
    /\ pc' = "running"
    /\ Stage("kickoff")
    /\ UNCHANGED <<entry, body, request, detail_level, agent, existing_template,
                   tasks, crew, executed, result, final_template, exc,
                   response, startVars, sanVars, anVars, decVars>>

\* inside kickoff: the sequential process runs the next task of the list,
\* or the provider fails
RunTask ==
    /\ pc = "running"
    /\ Len(executed) < Len(crew.tasks)
    /\ \/ /\ executed' = Append(executed, crew.tasks[Len(executed) + 1].kind)
          /\ UNCHANGED <<pc, exc, response>>
       \/ /\ Raise(ProviderError)
          /\ UNCHANGED executed
    /\ UNCHANGED <<entry, body, request, detail_level, agent, existing_template,
                   tasks, crew, result, final_template, startVars, inputs,
                   stages, sanVars, anVars, decVars>>

\* result = jinja_crew.kickoff(inputs=inputs): every task has run
KickoffReturn ==
    /\ pc = "running"
    /\ Len(executed) = Len(crew.tasks)
    /\ result' \in KickoffResults
    /\ pc' = "clean"
    /\ UNCHANGED <<entry, body, request, detail_level, agent, existing_template,
                   tasks, crew, executed, final_template, exc, response,
                   startVars, inputs, stages, sanVars, anVars, decVars>>

\* final_template = clean_template_output(result)
CleanResult ==
    /\ pc = "clean"
    /\ final_template' = clean_template_output(result)
    /\ pc' = "respond"
    /\ Stage("clean")
    /\ UNCHANGED <<entry, body, request, detail_level, agent, existing_template,
                   tasks, crew, executed, result, exc, response, startVars,
                   inputs, sanVars, anVars, decVars>>

\* return TemplateResponse(jinja_template=final_template); the generator
\* class returns {"jinja_template": response}
Respond ==
    /\ pc = "respond"
    /\ response' = [ status |-> 200,
                     body |-> IF entry = "api"
                              THEN TemplateResponse(final_template)
                              ELSE [jinja_template |-> final_template] ]
    /\ pc' = "done"
    /\ Stage("respond")
    /\ UNCHANGED <<entry, body, request, detail_level, agent, existing_template,
                   tasks, crew, executed, result, final_template, exc,
                   startVars, inputs, sanVars, anVars, decVars>>

\* an except clause that answers with what there is of the template
HandleExceptionWithPartial ==
    /\ pc = "except"
    /\ response' = [status |-> 200, body |-> TemplateResponse(final_template)]
    /\ pc' = "done"
    /\ Stage("except")
    /\ UNCHANGED <<entry, body, request, detail_level, agent, existing_template,
                   tasks, crew, executed, result, final_template, exc,
                   startVars, inputs, sanVars, anVars, decVars>>

\* except Exception as e: raise HTTPException(status_code=500, ...)
HandleException ==
    /\ pc = "except"
    /\ response' = [ status |-> 500,
                     body |-> [detail |-> "Template generation failed: "
                                          \o ExcStr(exc)] ]
    /\ pc' = "done"
    /\ Stage("except")
    /\ UNCHANGED <<entry, body, request, detail_level, agent, existing_template,
                   tasks, crew, executed, result, final_template, exc,
                   startVars, inputs, sanVars, anVars, decVars>>

Init == ReqInit

Next ==
    \/ ImportMain
    \/ Validate
    \/ Normalize
    \/ CfRead
    \/ Construct
    \/ GetAgent
    \/ Decode
    \/ CheckSample
    \/ CreateTasks
    \/ BuildCrew
    \/ Kickoff
    \/ RunTask
    \/ KickoffReturn
    \/ CleanResult
    \/ Respond
    \/ HandleException

Spec == Init /\ [][Next]_vars

-----------------------------------------------------------------------------
(* Properties of the request pipeline.                                     *)

Raised == exc # NoValue

\* the body's existing_template is non-empty and does not decode
UndecodableTemplate ==
    /\ body.existing_template # Absent
    /\ body.existing_template.s # <<>>
    /\ ~decode_existing_template(body.existing_template.s).ok

\* the handler received a request whose sample_json is empty (FastAPI
\* answers a body without sample_json itself, with 422)
EmptySampleJson == request.sample_json = PyDict(<<>>)

\* C1: a POST /generate-template/ request that reaches the handler with an
\* existing_template that does not decode, or with an empty sample_json,
\* ends with HTTP 400 when nothing else failed; a 400 raised inside the
\* handler is never answered as a 500.
C1_BadInputEndsWith400 ==
    (pc = "done" /\ entry = "api" /\ request # NoValue)
        => /\ ((UndecodableTemplate \/ EmptySampleJson) /\ exc # ProviderError)
                  => response.status = 400
           /\ (Raised /\ exc.type = "HTTPException" /\ exc.status_code = 400)
                  => response.status # 500

\* the level the specification gives a request: the supplied one matched
\* without regard to case, "high" when it is missing or none of the three
SpecifiedLevel(x) ==
    IF x = Absent THEN HIGH
    ELSE IF lower(x.s) \in {LOW, MEDIUM, HIGH} THEN lower(x.s)
    ELSE HIGH

\* agent, tasks and crew are what the level lv asks for
StagesFollow(lv) ==
    /\ agent # NoValue =>
          /\ agent.verbose = (lv \in {MEDIUM, HIGH})
          /\ agent.allow_delegation = (lv = HIGH)
    /\ tasks # <<>> => Len(tasks) = (IF lv = LOW THEN 1 ELSE 2)
    /\ crew # NoValue => crew.verbose = (lv = HIGH)

\* C8: on both paths, agent construction, task creation and crew verbosity
\* all follow the supplied level matched case-insensitively, or "high" when
\* it is invalid or missing, and the level never makes the request raise.
C8_StagesUseNormalizedLevel ==
    /\ StagesFollow(SpecifiedLevel(body.detail_level))
    /\ Raised => exc.type # "AttributeError"

\* the same for the FastAPI handler alone
C8_ApiStagesUseNormalizedLevel ==
    entry = "api" => /\ StagesFollow(SpecifiedLevel(body.detail_level))
                     /\ Raised => exc.type # "AttributeError"

\* C9: the task list starts with exactly one template task for the
\* request's agent; the level handed to create_tasks being medium or high,
\* exactly one validation task for the output parser follows, and none when
\* it is low; the crew runs the tasks in that order, each once.
C9_TemplateTaskThenValidation ==
    tasks # <<>> =>
        /\ tasks[1].kind = "template"
        /\ tasks[1].agent = agent.role
        /\ Cardinality({i \in 1..Len(tasks) : tasks[i].kind = "template"}) = 1
        /\ detail_level.s \in {MEDIUM, HIGH} =>
              /\ Len(tasks) = 2
              /\ tasks[2].kind = "validation"
              /\ tasks[2].agent = output_parser.role
        /\ detail_level.s = LOW => Len(tasks) = 1
        /\ Len(executed) <= Len(tasks)
        /\ \A i \in 1..Len(executed) : executed[i] = tasks[i].kind
        /\ pc \in {"clean", "respond"} => Len(executed) = Len(tasks)

\* a medium request whose crew has run generation, then validation
C9_Witness ==
    /\ pc = "clean"
    /\ detail_level.s = MEDIUM
    /\ executed = <<"template", "validation">>

\* a successful answer of POST /generate-template/
ApiSuccess == pc = "done" /\ entry = "api" /\ response.status = 200

\* C10 as stated: a successful response holds jinja_template and, the level
\* being medium or high, also detail_level, variables_used and success.
C10_EnvelopeAtMediumAndHigh ==
    ApiSuccess =>
        /\ "jinja_template" \in DOMAIN response.body
        /\ detail_level.s \in {MEDIUM, HIGH} =>
              {"detail_level", "variables_used", "success"}
                  \subseteq DOMAIN response.body
        /\ detail_level.s = LOW => DOMAIN response.body = {"jinja_template"}

\* C10 amended: at every detail level a successful response holds
\* jinja_template and nothing else, and jinja_template is the sanitized
\* kickoff result.
C10_OnlyJinjaTemplate ==
    ApiSuccess =>
        /\ DOMAIN response.body = {"jinja_template"}
        /\ response.body.jinja_template = ThreeMarkerPipeline(result)
        /\ NewlineFree(response.body.jinja_template)

\* a successful medium request whose kickoff returned a fenced template
C10_Witness ==
    /\ ApiSuccess
    /\ detail_level.s = MEDIUM
    /\ Contains(result.s, FENCE_HTML)
    /\ response.body.jinja_template = <<"x", " ", "x">>

-----------------------------------------------------------------------------
(* The decoding of existing_template on its own: a string is received and  *)
(* decoded by the handler of main.py, by JinjaTemplateGenerator, or by one *)
(* of the two test_decode functions.  The string is the base64 encoding of *)
(* a template, or any string a client may send.                            *)

\* longest template, in characters, that is encoded
MaxTemplateLen == 3
\* longest string, in characters, that is sent as it is
MaxRawLen == 5
\* decoded[:500]
PreviewLimit == 500

\* the code points templates are written with: one of each UTF-8 length
TemplateChars == {65, 233, 8364, 128512}

\* the characters raw strings are written with: a data character, the
\* padding, a character outside the alphabet, and the data character
\* that, doubled, decodes to the byte 0xFF
RawChars == {"Q", "=", "!", "/"}

SeqsUpTo(S, n) == UNION {[1..k -> S] : k \in 0..n}

Templates == SeqsUpTo(TemplateChars, MaxTemplateLen)
RawStrings == SeqsUpTo(RawChars, MaxRawLen)

\* str.encode("utf-8") of one code point
Utf8Bytes(c) ==
    IF c < 128 THEN <<c>>
    ELSE IF c < 2048 THEN <<192 + (c \div 64), 128 + (c % 64)>>
    ELSE IF c < 65536
    THEN <<224 + (c \div 4096), 128 + ((c \div 64) % 64), 128 + (c % 64)>>
    ELSE <<240 + (c \div 262144), 128 + ((c \div 4096) % 64),
           128 + ((c \div 64) % 64), 128 + (c % 64)>>

\* str.encode("utf-8")
utf8_encode(t) == Concat([i \in 1..Len(t) |-> Utf8Bytes(t[i])])

B64Char(v) == B64Alphabet[v + 1]

RECURSIVE b64encode(_)
\* base64.b64encode(b), as the client applies it
b64encode(b) ==
    IF b = <<>> THEN <<>>
    ELSE IF Len(b) = 1
    THEN <<B64Char(b[1] \div 4), B64Char((b[1] % 4) * 16), "=", "=">>
    ELSE IF Len(b) = 2
    THEN <<B64Char(b[1] \div 4), B64Char((b[1] % 4) * 16 + (b[2] \div 16)),
           B64Char((b[2] % 16) * 4), "=">>
    ELSE <<B64Char(b[1] \div 4), B64Char((b[1] % 4) * 16 + (b[2] \div 16)),
           B64Char((b[2] % 16) * 4 + (b[3] \div 64)), B64Char(b[3] % 64)>>
         \o b64encode(SubSeq(b, 4, Len(b)))

DecInit ==
    /\ dec_pc = "start"
    /\ \/ \E t \in Templates :
             /\ dec_template = PyStr(t)
             /\ dec_input = b64encode(utf8_encode(t))
       \/ /\ dec_template = NoValue
          /\ dec_input \in RawStrings
    /\ dec_outcome = NoValue
    /\ SanIdle
    /\ AnIdle
    /\ ReqIdle

\* main.py, generate_template: existing_template = "", decoded inside try
\* when bool(request.existing_template); a failure raises HTTPException(400)
DecodeInHandler ==
    /\ dec_pc = "start"
    /\ dec_outcome' =
          IF Bool(PyStr(dec_input))
          THEN LET d == decode_existing_template(dec_input)
               IN  IF d.ok
                   THEN [raised |-> FALSE, existing_template |-> d.value]
                   ELSE [raised |-> TRUE,
                         exc |-> Exception("HTTPException", 400,
                             "Invalid base64 encoding in existing_template: "
                             \o d.msg)]
          ELSE [raised |-> FALSE, existing_template |-> <<>>]
    /\ dec_pc' = "handler"
    /\ UNCHANGED <<dec_template, dec_input, sanVars, anVars, reqVars>>

\* JinjaTemplateGenerator.generate_template: the same, raising ValueError
DecodeInGenerator ==
    /\ dec_pc = "start"
    /\ dec_outcome' =
          IF Bool(PyStr(dec_input))
          THEN LET d == decode_existing_template(dec_input)
               IN  IF d.ok
                   THEN [raised |-> FALSE, existing_template |-> d.value]
                   ELSE [raised |-> TRUE,
                         exc |-> Exception("ValueError", 0,
                             "Invalid base64 encoding in existing_template: "
                             \o d.msg)]
          ELSE [raised |-> FALSE, existing_template |-> <<>>]
    /\ dec_pc' = "generator"
    /\ UNCHANGED <<dec_template, dec_input, sanVars, anVars, reqVars>>

\* decoded[:500] + ("..." if len(decoded) > 500 else "")
preview(decoded) ==
    IF Len(decoded) > PreviewLimit
    THEN SubSeq(decoded, 1, PreviewLimit) \o <<46, 46, 46>>
    ELSE decoded

\* the body of test_decode, the same in main.py and JinjaTemplateGenerator
test_decode(s) ==
    IF ~Bool(PyStr(s)) THEN [status |-> "No template provided"]
    ELSE LET d == decode_existing_template(s)
         IN  IF d.ok
             THEN [status |-> "success", length |-> Len(d.value),
                   preview |-> preview(d.value)]
             ELSE [status |-> "error", message |-> d.msg]

\* main.py: POST /test-decode/
TestDecode ==
    /\ dec_pc = "start"
    /\ dec_outcome' = test_decode(dec_input)
    /\ dec_pc' = "test_decode"
    /\ UNCHANGED <<dec_template, dec_input, sanVars, anVars, reqVars>>

\* JinjaTemplateGenerator.test_decode(existing_template)
GeneratorTestDecode ==
    /\ dec_pc = "start"
    /\ dec_outcome' = test_decode(dec_input)
    /\ dec_pc' = "generator_test_decode"
    /\ UNCHANGED <<dec_template, dec_input, sanVars, anVars, reqVars>>

DecNext ==
    \/ DecodeInHandler
    \/ DecodeInGenerator
    \/ TestDecode
    \/ GeneratorTestDecode

SpecDecode == DecInit /\ [][DecNext]_vars

-----------------------------------------------------------------------------
(* Properties of the decoding.                                             *)

\* base64 as RFC 4648 writes it: groups of four characters of the alphabet,
\* the last group padded with one or two "=" at its end
ValidBase64(s) ==
    /\ Len(s) % 4 = 0
    /\ \A i \in 1..Len(s) :
          \/ IsB64Char(s[i])
          \/ /\ s[i] = "="
             /\ i >= Len(s) - 1
             /\ \A j \in i..Len(s) : s[j] = "="

Decoded == dec_pc \in {"handler", "generator", "test_decode",
                       "generator_test_decode"}

\* the caller took the input for the template t
AcceptedAs(t) ==
    IF dec_pc \in {"handler", "generator"}
    THEN dec_outcome = [raised |-> FALSE, existing_template |-> t]
    ELSE IF t = <<>>
    THEN dec_outcome = [status |-> "No template provided"]
    ELSE /\ dec_outcome.status = "success"
         /\ dec_outcome.length = Len(t)
         /\ Len(t) <= PreviewLimit => dec_outcome.preview = t

\* the caller ended in its invalid-encoding outcome: HTTPException(400) in
\* the handler, ValueError in the generator class, status "error" in
\* test_decode
Rejected ==
    CASE dec_pc = "handler" ->
             /\ dec_outcome.raised
             /\ dec_outcome.exc.type = "HTTPException"
             /\ dec_outcome.exc.status_code = 400
      [] dec_pc = "generator" ->
             /\ dec_outcome.raised
             /\ dec_outcome.exc.type = "ValueError"
      [] OTHER -> dec_outcome.status = "error"

\* the encoding of every template is decoded to that template
RoundTrip == (Decoded /\ dec_template # NoValue) => AcceptedAs(dec_template.s)

\* C11: the encoding of a template is decoded to exactly that template, and
\* every string that is not valid base64 ends in the invalid-encoding
\* outcome, never taken for some (possibly empty) template.
C11_DecodeInvertsAndRejects ==
    Decoded =>
        /\ dec_template # NoValue => AcceptedAs(dec_template.s)
        /\ ~ValidBase64(dec_input) => Rejected

\* what decoding does reject: a string whose data characters, the others
\* being skipped, leave an unfinished group, or whose bytes are no UTF-8
C11_RejectsWhatTheDecoderRejects ==
    Decoded =>
        (Rejected <=> /\ dec_input # <<>>
                      /\ ~decode_existing_template(dec_input).ok)

\* the string "!!!!" taken for the empty template by the handler
C11_SilentlyAccepted ==
    /\ dec_pc = "handler"
    /\ dec_input = <<"!", "!", "!", "!">>
    /\ dec_outcome = [raised |-> FALSE, existing_template |-> <<>>]

-----------------------------------------------------------------------------
(* Properties of startup.                                                  *)

\* main.py has been imported: the app takes requests
AppReady == entry = "api" /\ pc # "import"

\* JinjaTemplateGenerator() was called for the request
ConstructionOver == entry = "cf" /\ request # NoValue /\ pc # "construct"

\* JinjaTemplateGenerator() returned an object
Constructed == ConstructionOver /\ api_key # NoValue

CredentialKeyError == Exception("KeyError", 0, "'OPENAI_API_KEY'")

\* C12: OPENAI_API_KEY being absent from the environment, the import of
\* main.py and the construction of JinjaTemplateGenerator both print the
\* warning and complete; neither raises.
C12_StartupCompletesWithoutCredential ==
    env = Absent =>
        /\ AppReady => (stdout = <<WARNING>> /\ exc # CredentialKeyError)
        /\ ConstructionOver => (Constructed /\ stdout = <<WARNING>>)

\* the half that holds: the import of main.py prints the warning and
\* completes when the credential is absent or empty, and prints nothing
\* when it is set
C12_ImportCompletes ==
    AppReady => /\ stdout = IF env \in {Absent, PyStr(<<>>)}
                            THEN <<WARNING>> ELSE <<>>
                /\ exc # CredentialKeyError

\* the generator class warns and completes only for an empty credential
C12_ConstructionNeedsTheVariable ==
    ConstructionOver =>
        /\ Constructed <=> env # Absent
        /\ env = Absent => (exc = CredentialKeyError /\ stdout = <<>>)
        /\ env = PyStr(<<>>) => stdout = <<WARNING>>

-----------------------------------------------------------------------------
(* Properties of the pipeline's control flow.                              *)

\* the statements of generate_template in the order the code has them; the
\* except clause of main.py comes last
PipelineOrder ==
    << "normalize", "agent", "decode", "check_sample", "create_tasks", "crew",
       "kickoff", "clean", "respond", "except" >>

Rank(name) == CHOOSE i \in 1..Len(PipelineOrder) : PipelineOrder[i] = name

Ran(name) == \E i \in 1..Len(stages) : stages[i] = name

\* every statement ran at most once, and none before an earlier one
InPipelineOrder ==
    \A i, j \in 1..Len(stages) :
        i < j => Rank(stages[i]) < Rank(stages[j])

\* POST /generate-template/ with a body FastAPI accepted
InHandler == entry = "api" /\ request # NoValue

\* the request has its one outcome: the template of a run in which nothing
\* was raised and every task ran, or a 500 that holds the detail only
OneTerminalOutcome ==
    pc = "done" =>
        /\ response.status \in {200, 500}
        /\ response.status = 200 <=> ~Raised
        /\ response.status = 200 =>
              /\ Len(executed) = Len(tasks)
              /\ response.body = TemplateResponse(clean_template_output(result))
        /\ response.status = 500 =>
              response.body =
                  [detail |-> "Template generation failed: " \o ExcStr(exc)]

\* once an exception is raised only the except clause runs, and it leaves
\* what the stages built as it was
OnlyExceptAfterFailure ==
    Raised =>
        /\ pc' = "done"
        /\ stages' = Append(stages, "except")
        /\ response'.status = 500
        /\ UNCHANGED <<agent, existing_template, tasks, crew, inputs, executed,
                       result, final_template, exc>>

\* C13: in the handler of main.py, an exception raised in any stage is
\* followed by the except clause alone; the request ends in exactly one
\* outcome, the success response of a complete run or HTTP 500 with its
\* detail message; no stage runs twice; nothing follows the outcome.
C13_FailureAbortsRequest ==
    /\ [](InHandler => (OneTerminalOutcome /\ InPipelineOrder))
    /\ [][InHandler => (OnlyExceptAfterFailure /\ response = NoValue)]_vars

\* the validation task failed after the template task had run: the request
\* ended with 500 and without a template
C13_Witness ==
    /\ InHandler
    /\ pc = "done"
    /\ exc = ProviderError
    /\ executed = <<"template">>
    /\ Len(tasks) = 2
    /\ response.status = 500
    /\ stages = << "normalize", "agent", "decode", "check_sample",
                   "create_tasks", "crew", "kickoff", "except" >>

\* the request was turned down at decoding or at the sample_json check
RejectedInput ==
    /\ Raised
    /\ exc.type \in {"HTTPException", "ValueError"}

\* kickoff was called after the template was decoded, or left empty there
\* being none, and with a sample_json that is not empty
KickoffAfterChecks ==
    Ran("kickoff") =>
        /\ Ran("decode") /\ Ran("check_sample") /\ Ran("create_tasks")
        /\ Bool(request.sample_json)
        /\ inputs.sample_json = request.sample_json
        /\ IF has_existing_template
           THEN LET d == decode_existing_template(request.existing_template.s)
                IN  d.ok /\ inputs.existing_template = d.value
           ELSE inputs.existing_template = <<>>

\* C14: on both paths the statements of a request run in the order decode,
\* analyze (inside create_tasks), kickoff, sanitize, respond, each at most
\* once; kickoff is called only after decoding succeeded or was skipped and
\* sample_json was found non-empty, and tasks run only inside it; a success
\* response is given only after the sanitizer was applied to the result of
\* kickoff; a request turned down at decoding or at the sample_json check
\* never reaches kickoff.
C14_SequentialPipeline ==
    request # NoValue =>
        /\ InPipelineOrder
        /\ Cardinality({i \in 1..Len(stages) : stages[i] = "kickoff"}) <= 1
        /\ KickoffAfterChecks
        /\ executed # <<>> => Ran("kickoff")
        /\ result # NoValue => (Ran("kickoff") /\ Len(executed) = Len(tasks))
        /\ (response # NoValue /\ response.status = 200) =>
              /\ Ran("clean")
              /\ stages[Len(stages)] = "respond"
              /\ response.body.jinja_template = clean_template_output(result)
        /\ RejectedInput =>
              /\ ~Ran("kickoff")
              /\ inputs = NoValue
              /\ executed = <<>>
              /\ result = NoValue

\* a request with the template "A" answered after every statement ran
C14_Witness ==
    /\ entry = "api"
    /\ pc = "done"
    /\ response.status = 200
    /\ inputs.existing_template = <<65>>
    /\ stages = << "normalize", "agent", "decode", "check_sample",
                   "create_tasks", "crew", "kickoff", "clean", "respond" >>

\* a request with an empty sample_json turned down before kickoff
C14_RejectedWitness ==
    /\ pc = "done"
    /\ RejectedInput
    /\ request.sample_json = PyDict(<<>>)
    /\ Ran("check_sample")
    /\ ~Ran("kickoff")

=============================================================================
